---- MODULE Spec2Model ----
(***************************************************************************)
(* Model of script.py: the data-vault row-count reconciliation script.     *)
(*                                                                         *)
(* Python values are tagged records [t, v]; a Python dict is the sequence  *)
(* of its <<key, value>> pairs in insertion order, keys unique.  A JSON    *)
(* text is a token tree [k, body] in which an object may repeat a key, so  *)
(* that json.loads and json.dumps are conversions and not the identity.    *)
(* The warehouse holds one entity: a source table whose rows carry a       *)
(* deleted flag and a flag telling whether the hub/satellite join holds an *)
(* identical tuple (the row is then removed by EXCEPT).                    *)
(***************************************************************************)
EXTENDS Integers, Sequences, FiniteSets, TLC

\* ---- bounds of the model ----
MaxConfigs == 2
MaxRows == 1
MaxLimit == 2

\* ---- program constants ----
DefaultLimit == 10

VARIABLES
    table_configs,  \* the static list of configuration dictionaries
    db,             \* the warehouse: rows of the source table
    pc,             \* position of main / of the extract_missing_records call
    idx,            \* index of the next entry of table_configs
    results,        \* main's list of result tuples
    lost_records,   \* main's dict table_name -> lost-record details
    returned,       \* the DataFrame main returned, or NotReturned
    log,            \* per entry or call: the exception caught, the statements
                    \* submitted to session.sql and what each returned
    arg_limit,      \* extract_missing_records: the limit argument
    ret             \* extract_missing_records: the returned pair

vars == <<table_configs, db, pc, idx, results, lost_records, returned,
          log, arg_limit, ret>>

\* ---- Python values ----
Str(s) == [t |-> "str", v |-> s]
Num(n) == [t |-> "num", v |-> n]
Bool(b) == [t |-> "bool", v |-> b]
Obj(d) == [t |-> "obj", v |-> d]
Arr(s) == [t |-> "arr", v |-> s]
Fmt(s) == [t |-> "fmt", v |-> s]
PyNone == [t |-> "none", v |-> 0]

Min(a, b) == IF a < b THEN a ELSE b

\* ---- Python dict as an insertion-ordered sequence of pairs ----
Keys(d) == {d[i][1] : i \in DOMAIN d}
HasKey(d, k) == k \in Keys(d)
DictGet(d, k) == d[CHOOSE i \in DOMAIN d : d[i][1] = k][2]
DictSet(d, k, val) ==
    IF HasKey(d, k)
    THEN [i \in DOMAIN d |-> IF d[i][1] = k THEN <<k, val>> ELSE d[i]]
    ELSE Append(d, <<k, val>>)

\* ---- JSON texts: json.dumps and json.loads ----
SqlNull == [k |-> "sqlnull", body |-> 0]
Malformed == [k |-> "malformed", body |-> 0]
Literal(val) == [k |-> "literal", body |-> val]
ObjectText(pairs) == [k |-> "object", body |-> pairs]
ArrayText(items) == [k |-> "array", body |-> items]

RECURSIVE Dumps(_)
Dumps(val) ==
    CASE val.t = "obj" ->
           ObjectText([i \in DOMAIN val.v |-> <<val.v[i][1], Dumps(val.v[i][2])>>])
      [] val.t = "arr" -> ArrayText([i \in DOMAIN val.v |-> Dumps(val.v[i])])
      [] OTHER -> Literal(val)

RECURSIVE Loads(_)
RECURSIVE ToDict(_)
\* dict built from the pairs of an object text: a repeated key keeps its first
\* position and its last value
ToDict(pairs) ==
    IF pairs = <<>> THEN <<>>
    ELSE LET n == Len(pairs)
         IN DictSet(ToDict(SubSeq(pairs, 1, n - 1)), pairs[n][1], Loads(pairs[n][2]))
Loads(text) ==
    CASE text.k = "object" -> Obj(ToDict(text.body))
      [] text.k = "array" -> Arr([i \in DOMAIN text.body |-> Loads(text.body[i])])
      [] OTHER -> text.body

JSONDecodeError(text) == text.k = "malformed"
\* `if row.RECORD_JSON:` -- None (SQL NULL) is falsy
Truthy(text) == text.k # "sqlnull"

\* ---- the warehouse ----
Rows == [deleted : BOOLEAN, in_hub : BOOLEAN]
\* the source table, its rows listed by kind (row ids are interchangeable)
Kind(r) == (IF r.deleted THEN 2 ELSE 0) + (IF r.in_hub THEN 1 ELSE 0)
Databases(max) ==
    UNION {{d \in [1..n -> Rows] : \A i, j \in 1..n : i < j => Kind(d[i]) <= Kind(d[j])} :
           n \in 0..max}

SourceRows(d) == DOMAIN d
\* SELECT COUNT(*) FROM source
CountSource(d) == Cardinality(SourceRows(d))
\* SELECT COUNT(*) FROM source WHERE deleted_column = FALSE
CountNonDeleted(d) == Cardinality({r \in SourceRows(d) : ~d[r].deleted})
\* custom_except_query: source tuples EXCEPT hub-join-satellite tuples; the
\* query has no filter on the deleted column
ExceptRows(d) == {r \in SourceRows(d) : ~d[r].in_hub}
CountExcept(d) == Cardinality(ExceptRows(d))
\* the layers of a vault loaded from the rows flagged in_hub: one hub row per
\* loaded source row, one link, current-satellite and business-view row per hub row
HubRows(d) == Cardinality({r \in SourceRows(d) : d[r].in_hub})
LinkRows(d) == HubRows(d)
SatelliteRows(d) == HubRows(d)
BizviewRows(d) == HubRows(d)

\* TO_JSON(OBJECT_CONSTRUCT(*)) of one row of the EXCEPT query, whose SELECT list
\* is columns: the key column holds the row id, every other column a string
ToJson(r, columns) ==
    ObjectText([i \in DOMAIN columns |->
                  <<columns[i], Literal(IF i = 1 THEN Num(r) ELSE Str("N"))>>])
\* WITH missing_records AS (<except query> LIMIT limit): any `limit` rows of the
\* EXCEPT result, listed in scan order
LimitedSamples(d, limit) ==
    {s \in [1..Min(limit, CountExcept(d)) -> ExceptRows(d)] :
        \A i, j \in DOMAIN s : i < j => s[i] < s[j]}
JsonSamples(d, columns, limit) ==
    {[i \in DOMAIN s |-> ToJson(s[i], columns)] : s \in LimitedSamples(d, limit)}

\* ---- table_configs ----
SourceName == Str(<<"SOURCE_DB", "SOURCE_SCHEMA", "ENTITY_TABLE">>)
HubName == Str(<<"DV_DB", "RAWVAULT", "H_ENTITY">>)
SatelliteName == Str(<<"DV_DB", "RAWVAULT", "S_ENTITY_LROC_INFO_CURRENT">>)
BizviewName == Str(<<"DV_DB", "BIZVIEWS", "FACT_ENTITY">>)

\* the SELECT list of custom_except_query: the template's, and one that selects a
\* column named like the key the script adds
TemplateColumns == <<"ID", "NAME">>
ColumnLists == {TemplateColumns, <<"ID", "__metadata">>}

\* an entry as the template lays it out; has_except and has_deleted tell whether
\* the keys custom_except_query and deleted_column are present
Config(src, ex, del, columns) ==
    [source_table |-> src, hub_table |-> HubName,
     cur_satellite_table |-> SatelliteName, bizview_table |-> BizviewName,
     has_except |-> ex, has_deleted |-> del, columns |-> columns]
WellFormedConfigs ==
    {Config(SourceName, TRUE, del, columns) : del \in BOOLEAN, columns \in ColumnLists}
    \cup {Config(SourceName, FALSE, del, TemplateColumns) : del \in BOOLEAN}
\* the entries main is run on: the template, an entry with neither optional key,
\* and an entry whose source_table holds None (.split raises in main); the
\* entries read one entity, so those that carry a query carry the same one
Configs(columns) ==
    {Config(SourceName, TRUE, TRUE, columns),
     Config(SourceName, FALSE, FALSE, TemplateColumns),
     Config(PyNone, TRUE, TRUE, columns)}

\* ---- extract_missing_records ----
Metadata(config) ==
    <<<<"source_table", config.source_table>>, <<"hub_table", config.hub_table>>,
      <<"satellite_table", config.cur_satellite_table>>,
      <<"bizview_table", config.bizview_table>>>>
MissingMetadata(config) == Append(Metadata(config), <<"record_type", Str("missing")>>)

\* the error dict of the three except handlers of the function
HandlerError(msg, config) ==
    Obj(<<<<"error", Str(msg)>>, <<"__metadata", Obj(Metadata(config))>>>>)
\* the error dict appended for one row that cannot be used
RowError(msg, config) ==
    Obj(<<<<"error", Str(msg)>>, <<"__metadata", Obj(Metadata(config))>>,
          <<"__record_separator", Bool(TRUE)>>>>)
NoteEntry(limit, missing_count, config) ==
    Obj(<<<<"NOTE", Fmt(<<"Showing", limit, "of", missing_count>>)>>,
          <<"source_table", config.source_table>>, <<"hub_table", config.hub_table>>,
          <<"satellite_table", config.cur_satellite_table>>,
          <<"bizview_table", config.bizview_table>>>>)

\* mutant: the parsed record goes through safe_json_conversion, which turns
\* every scalar into its str()
RecordEntryStringified(text, config) ==
    IF ~Truthy(text) THEN RowError("Empty JSON result", config)
    ELSE IF JSONDecodeError(text) THEN RowError("Failed to parse JSON", config)
    ELSE LET record_dict == Loads(text).v
             safe == [i \in DOMAIN record_dict |->
                        <<record_dict[i][1],
                          IF record_dict[i][2].t \in {"obj", "arr", "none"}
                          THEN record_dict[i][2] ELSE Str(record_dict[i][2].v)>>]
             with_meta == DictSet(safe, "__metadata", Obj(MissingMetadata(config)))
         IN Obj(DictSet(with_meta, "__record_separator", Bool(TRUE)))

\* one iteration of the loop over the collected rows
RecordEntry(text, config) ==
    IF ~Truthy(text) THEN RowError("Empty JSON result", config)
    ELSE IF JSONDecodeError(text) THEN RowError("Failed to parse JSON", config)
    ELSE LET record_dict == Loads(text).v
             with_meta == DictSet(record_dict, "__metadata", Obj(MissingMetadata(config)))
         IN Obj(DictSet(with_meta, "__record_separator", Bool(TRUE)))

\* item assignment on the value json.loads returned raises TypeError unless it is a dict
RaisesTypeError(text) ==
    Truthy(text) /\ ~JSONDecodeError(text) /\ Loads(text).t # "obj"

SampleEntries(texts, config) == [i \in DOMAIN texts |-> RecordEntry(texts[i], config)]

\* mutant: the note is appended as soon as the count reaches the limit
WithNoteAtLimit(missing_records, missing_count, limit, config) ==
    IF missing_count >= limit
    THEN Append(missing_records, NoteEntry(limit, missing_count, config))
    ELSE missing_records

\* lines 181-190: the note about the sample size
WithNote(missing_records, missing_count, limit, config) ==
    IF missing_count > limit
    THEN Append(missing_records, NoteEntry(limit, missing_count, config))
    ELSE missing_records

CountQuery(ok, n) == [q |-> "count_except", ok |-> ok, res |-> IF ok THEN n ELSE 0]
SampleQuery(ok, texts) == [q |-> "sample", ok |-> ok, res |-> IF ok THEN texts ELSE <<>>]

\* mutant: the handler returns 0 like the two outer handlers
SampleFailureZero(missing_count, config, queries) ==
    [count |-> 0,
     list |-> <<HandlerError("JSON processing error", config)>>,
     log |-> queries, caught |-> "none"]

\* the return of the `except Exception as json_error` handler
SampleFailure(missing_count, config, queries) ==
    [count |-> missing_count,
     list |-> <<HandlerError("JSON processing error", config)>>,
     log |-> queries, caught |-> "none"]

\* ses is the behaviour of the session during the call: fault names where an
\* exception is raised outside the two query blocks ("critical": line 97, "query":
\* lines 102-126), fails the statements that raise, sample the RECORD_JSON values
\* the sample statement returns; caught names the outer handler that ran
extract_missing_records(d, config, limit, ses) ==
    IF ses.fault = "critical"
    THEN [count |-> 0, list |-> <<HandlerError("Critical error", config)>>,
          log |-> <<>>, caught |-> "critical"]
    ELSE IF ~config.has_except
    THEN [count |-> 0, list |-> <<>>, log |-> <<>>, caught |-> "none"]
    ELSE IF ses.fault = "query"
    THEN [count |-> 0, list |-> <<HandlerError("Query error", config)>>,
          log |-> <<>>, caught |-> "query"]
    ELSE LET count_ok == "count_except" \notin ses.fails
             sample_ok == "sample" \notin ses.fails
             missing_count == IF count_ok THEN CountExcept(d) ELSE 0
             queries == <<CountQuery(count_ok, CountExcept(d)),
                          SampleQuery(sample_ok, ses.sample)>>
         IN IF ~sample_ok \/ \E i \in DOMAIN ses.sample : RaisesTypeError(ses.sample[i])
            THEN SampleFailure(missing_count, config, queries)
            ELSE [count |-> missing_count,
                  list |-> WithNote(SampleEntries(ses.sample, config),
                                    missing_count, limit, config),
                  log |-> queries, caught |-> "none"]

\* ---- the behaviours of the session ----
Statements == {"source_count", "non_deleted", "count_except", "sample"}
\* the warehouse evaluating the statements as written: any of them may raise,
\* and TO_JSON(OBJECT_CONSTRUCT(*)) yields an object text for every row
WarehouseSessions(d, config, limit) ==
    [fault : {"none"}, fails : SUBSET Statements,
     sample : JsonSamples(d, config.columns, limit)]

\* RECORD_JSON values the loop over the collected rows also provides for: NULL,
\* text that does not parse, JSON that is no object
BadTexts(text) == {SqlNull, Malformed, Literal(Num(7))}
Corrupted(texts) ==
    {texts} \cup UNION {{[texts EXCEPT ![p] = bad] : bad \in BadTexts(texts[p])} :
                         p \in DOMAIN texts}
\* any session object: also exceptions outside the query blocks and bad RECORD_JSON
ArbitrarySessions(d, config, limit) ==
    [fault : {"none", "query", "critical"},
     fails : SUBSET {"count_except", "sample"},
     sample : UNION {Corrupted(texts) : texts \in JsonSamples(d, config.columns, limit)}]

\* ---- main ----
result_schema ==
    <<"TABLE_NAME", "SOURCE_TABLE", "HUB_TABLE", "SATELLITE_TABLE", "BIZVIEW_TABLE",
      "SOURCE_COUNT", "HUB_COUNT", "LINK_COUNT", "CURRENT_SATELLITE_COUNT",
      "BIZVIEW_COUNT", "SOURCE_TO_HUB_LOSS", "HUB_TO_LINK_LOSS", "HUB_TO_SAT_LOSS",
      "LINK_TO_SAT_LOSS", "SAT_TO_BIZVIEW_LOSS", "TOTAL_ROWS_LOST", "DELETED_RECORDS",
      "LOST_RECORDS_DETAILS">>

\* session.create_dataframe(rows, schema=result_schema)
create_dataframe(rows) == [schema |-> result_schema, rows |-> rows]
NotReturned == [schema |-> <<>>, rows |-> <<"main has not returned">>]

\* the column of a row of a DataFrame, by the position of its name in the schema
Col(df, row, name) == row[CHOOSE i \in DOMAIN df.schema : df.schema[i] = name]

\* config.get('source_table', '').split('.')[-1]
TableName(config) ==
    LET parts == config.source_table.v IN Str(<<parts[Len(parts)]>>)

SourceCountQuery(ok, n) == [q |-> "source_count", ok |-> ok, res |-> IF ok THEN n ELSE 0]
NonDeletedQuery(ok, n) == [q |-> "non_deleted", ok |-> ok, res |-> IF ok THEN n ELSE 0]

LostRecords(missing_records, source_hub_loss, deleted_count) ==
    Obj(<<<<"source_to_hub", Arr(missing_records)>>,
          <<"missing_count", Num(source_hub_loss)>>,
          <<"hub_to_satellite", Arr(<<>>)>>, <<"hub_to_link", Arr(<<>>)>>,
          <<"link_to_satellite", Arr(<<>>)>>, <<"satellite_to_bizview", Arr(<<>>)>>,
          <<"deleted", Num(deleted_count)>>>>)

\* the tuple appended to results
ResultTuple(config, non_deleted_count, source_hub_loss, deleted_count, lost) ==
    LET hub_count == non_deleted_count - source_hub_loss
        hub_to_link_loss == 0
        hub_to_sat_loss == 0
        link_to_sat_loss == 0
        sat_to_bizview_loss == 0
        total_rows_lost == source_hub_loss + hub_to_link_loss + hub_to_sat_loss
                           + link_to_sat_loss + sat_to_bizview_loss
    IN <<TableName(config), config.source_table, config.hub_table,
         config.cur_satellite_table, config.bizview_table,
         Num(non_deleted_count), Num(hub_count), Num(hub_count), Num(hub_count),
         Num(hub_count), Num(source_hub_loss), Num(hub_to_link_loss),
         Num(hub_to_sat_loss), Num(link_to_sat_loss), Num(sat_to_bizview_loss),
         Num(total_rows_lost), Num(deleted_count), Str(Dumps(lost))>>

\* the body of the try block of one iteration of the loop over table_configs
ProcessEntry(d, config, ses) ==
    LET source_ok == "source_count" \notin ses.fails
        source_count == IF source_ok THEN CountSource(d) ELSE 0
        deleted_ok == "non_deleted" \notin ses.fails
        counted == config.has_deleted /\ deleted_ok
        non_deleted_count == IF counted THEN CountNonDeleted(d) ELSE source_count
        deleted_count == IF counted THEN source_count - non_deleted_count ELSE 0
        ext == extract_missing_records(d, config, DefaultLimit, ses)
        lost == LostRecords(ext.list, ext.count, deleted_count)
    IN [row |-> ResultTuple(config, non_deleted_count, ext.count, deleted_count, lost),
        lost |-> lost,
        log |-> <<SourceCountQuery(source_ok, CountSource(d))>>
                \o (IF config.has_deleted
                    THEN <<NonDeletedQuery(deleted_ok, CountNonDeleted(d))>> ELSE <<>>)
                \o ext.log]

\* mutant: config['custom_except_query'] read without .get raises for an entry
\* that has no such key
RaisesKeyError(config) == config.source_table.t # "str" \/ ~config.has_except

\* line 270: .split on a source_table that is no string raises inside the try
RaisesAttributeError(config) == config.source_table.t # "str"

\* what one entry leaves in the log
LogEntry(entry, raised, caught, queries) ==
    [entry |-> entry, raised |-> raised, caught |-> caught, queries |-> queries]

\* mutant: `break` in place of `continue` in the except clause
BreakLoop(i, raised) == IF raised THEN Len(table_configs) + 1 ELSE i + 1

\* the for loop moves to the next entry, also after `continue` in the except clause
NextEntry(i, raised) == i + 1

ConfigLists ==
    UNION {[1..n -> Configs(columns)] : n \in 1..MaxConfigs, columns \in ColumnLists}

Init ==
    /\ table_configs \in ConfigLists
    /\ db \in Databases(MaxRows)
    /\ pc = "loop"
    /\ idx = 1
    /\ results = <<>>
    /\ lost_records = <<>>
    /\ returned = NotReturned
    /\ log = <<>>
    /\ arg_limit = DefaultLimit
    /\ ret = <<>>

\* one iteration of `for config in table_configs`, its except clause included
ProcessConfig ==
    /\ pc = "loop"
    /\ idx <= Len(table_configs)
    /\ LET config == table_configs[idx]
       IN IF RaisesAttributeError(config)
          THEN /\ log' = Append(log, LogEntry(idx, TRUE, "none", <<>>))
               /\ idx' = NextEntry(idx, TRUE)
               /\ UNCHANGED <<results, lost_records>>
          ELSE \E ses \in WarehouseSessions(db, config, DefaultLimit) :
                 LET out == ProcessEntry(db, config, ses)
                 IN /\ results' = Append(results, out.row)
                    /\ lost_records' = DictSet(lost_records, TableName(config).v, out.lost)
                    /\ log' = Append(log, LogEntry(idx, FALSE, "none", out.log))
                    /\ idx' = NextEntry(idx, FALSE)
    /\ UNCHANGED <<table_configs, db, pc, returned, arg_limit, ret>>

\* lines 359-395: build the DataFrame and print the summary, or return the empty
\* DataFrame when either raises
ReturnResults ==
    /\ pc = "loop"
    /\ idx > Len(table_configs)
    /\ \E built \in BOOLEAN :
         /\ returned' = IF built THEN create_dataframe(results) ELSE create_dataframe(<<>>)
         /\ pc' = IF built THEN "returned" ELSE "returned_empty"
    /\ UNCHANGED <<table_configs, db, idx, results, lost_records, log, arg_limit, ret>>

Next == ProcessConfig \/ ReturnResults

Spec == Init /\ [][Next]_vars

\* ---- extract_missing_records called on its own ----
InitExtract ==
    /\ table_configs \in {<<c>> : c \in WellFormedConfigs}
    /\ db \in Databases(MaxLimit + 1)
    /\ arg_limit \in 0..MaxLimit
    /\ pc = "call"
    /\ idx = 1
    /\ results = <<>>
    /\ lost_records = <<>>
    /\ returned = NotReturned
    /\ log = <<>>
    /\ ret = <<>>

CallExtract ==
    /\ pc = "call"
    /\ \E ses \in ArbitrarySessions(db, table_configs[1], arg_limit) :
         LET out == extract_missing_records(db, table_configs[1], arg_limit, ses)
         IN /\ ret' = <<out.count, out.list>>
            /\ log' = <<LogEntry(1, FALSE, out.caught, out.log)>>
    /\ pc' = "extracted"
    /\ UNCHANGED <<table_configs, db, idx, results, lost_records, returned, arg_limit>>

NextExtract == CallExtract

SpecExtract == InitExtract /\ [][NextExtract]_vars

\* ---- the claims ----
IsString(val) == val.t = "str"
\* every entry of table_configs is a usable dictionary: the only failures of a run
\* are statements that raise
OnlyStatementsFail == \A i \in DOMAIN table_configs : IsString(table_configs[i].source_table)
AllStatementsFailed(e) ==
    /\ Len(e.queries) = 4
    /\ \A q \in DOMAIN e.queries : ~e.queries[q].ok

\* C1: when main returns the DataFrame built from results, it holds exactly one
\* row per entry of table_configs, the i-th row for the i-th entry, whatever
\* subset of the statements submitted for the entries raised
C1_OneRowPerEntry ==
    (pc = "returned" /\ OnlyStatementsFail) =>
        /\ Len(returned.rows) = Len(table_configs)
        /\ \A i \in DOMAIN returned.rows :
              Col(returned, returned.rows[i], "SOURCE_TABLE") = table_configs[i].source_table

\* two entries, every statement of one of them raised, and still two rows
C1_Witness ==
    /\ pc = "returned"
    /\ OnlyStatementsFail
    /\ Len(table_configs) >= 2
    /\ \E i \in DOMAIN log : AllStatementsFailed(log[i])
    /\ Len(returned.rows) = Len(table_configs)

Failing(i) == ~IsString(table_configs[i].source_table)
Emitted(n) == Cardinality({i \in 1..n : ~Failing(i)})

\* C6: an entry whose processing raises does not stop main: the entries are
\* visited in order up to the last one, a failed entry adds no row and every
\* other entry adds one, and main returns a DataFrame of the 18-column schema,
\* holding the rows of results, or no row when building it raised
C6_FailureIsolated ==
    /\ Len(log) = idx - 1
    /\ \A i \in DOMAIN log : log[i].entry = i /\ (log[i].raised <=> Failing(i))
    /\ Len(results) = Emitted(idx - 1)
    /\ pc # "loop" =>
          /\ idx = Len(table_configs) + 1
          /\ returned.schema = result_schema
          /\ Len(returned.schema) = 18
          /\ \A r \in DOMAIN returned.rows : Len(returned.rows[r]) = 18
          /\ pc = "returned" => returned.rows = results
          /\ pc = "returned_empty" => returned.rows = <<>>

\* the first entry raised, the second was processed and its row returned
C6_Witness ==
    /\ pc = "returned"
    /\ Len(table_configs) >= 2
    /\ Failing(1)
    /\ ~Failing(2)
    /\ Len(log) = Len(table_configs)
    /\ Len(returned.rows) = Emitted(Len(table_configs))
    /\ Len(returned.rows) >= 1

\* the log entry of the k-th row of results
RowEntry(k) ==
    log[CHOOSE i \in DOMAIN log :
          ~log[i].raised /\ Cardinality({j \in 1..i : ~log[j].raised}) = k]
AllStatementsOk(e) == \A q \in DOMAIN e.queries : e.queries[q].ok
Column(row, name) == Col(returned, row, name)

\* C2 (as claimed, for the entries all of whose statements succeeded): the five
\* count columns of every emitted row equal the numbers of rows of the source,
\* hub, link, current-satellite and business-view tables
C2_LayerCounts ==
    pc = "returned" =>
        \A k \in DOMAIN returned.rows :
            LET row == returned.rows[k]
            IN AllStatementsOk(RowEntry(k)) =>
                 /\ Column(row, "SOURCE_COUNT") = Num(CountSource(db))
                 /\ Column(row, "HUB_COUNT") = Num(HubRows(db))
                 /\ Column(row, "LINK_COUNT") = Num(LinkRows(db))
                 /\ Column(row, "CURRENT_SATELLITE_COUNT") = Num(SatelliteRows(db))
                 /\ Column(row, "BIZVIEW_COUNT") = Num(BizviewRows(db))

DeletedRows == {r \in SourceRows(db) : db[r].deleted}
LostLiveRows == {r \in SourceRows(db) : ~db[r].in_hub /\ ~db[r].deleted}

\* C7 (as claimed, for the entries that configure deleted_column and
\* custom_except_query and all of whose statements succeeded): TOTAL_ROWS_LOST is
\* the sum of the five loss columns, the rows flagged deleted are counted in
\* DELETED_RECORDS, and TOTAL_ROWS_LOST counts the lost rows that are not deleted
C7_DeletedExcluded ==
    pc = "returned" =>
        \A k \in DOMAIN returned.rows :
            LET row == returned.rows[k]
                e == RowEntry(k)
                c == table_configs[e.entry]
            IN (AllStatementsOk(e) /\ c.has_deleted /\ c.has_except) =>
                 /\ Column(row, "TOTAL_ROWS_LOST").v =
                       Column(row, "SOURCE_TO_HUB_LOSS").v + Column(row, "HUB_TO_LINK_LOSS").v
                       + Column(row, "HUB_TO_SAT_LOSS").v + Column(row, "LINK_TO_SAT_LOSS").v
                       + Column(row, "SAT_TO_BIZVIEW_LOSS").v
                 /\ Column(row, "DELETED_RECORDS") = Num(Cardinality(DeletedRows))
                 /\ Column(row, "TOTAL_ROWS_LOST") = Num(Cardinality(LostLiveRows))

\* the RECORD_JSON values the sample statement of an entry returned
SampleTexts(e) ==
    IF \E q \in DOMAIN e.queries : e.queries[q].q = "sample" /\ e.queries[q].ok
    THEN e.queries[CHOOSE q \in DOMAIN e.queries : e.queries[q].q = "sample"].res
    ELSE <<>>
\* the source_to_hub list read back from LOST_RECORDS_DETAILS
SourceToHub(row) ==
    DictGet(Loads(Column(row, "LOST_RECORDS_DETAILS").v).v, "source_to_hub").v
AddedKeys == {"__metadata", "__record_separator"}
ExpectedMetadata(c) ==
    Obj(<<<<"source_table", c.source_table>>, <<"hub_table", c.hub_table>>,
          <<"satellite_table", c.cur_satellite_table>>,
          <<"bizview_table", c.bizview_table>>, <<"record_type", Str("missing")>>>>)

\* C4 (as claimed): the entry of source_to_hub for a RECORD_JSON value has exactly
\* the keys and values of that JSON object
C4_PassedThroughUnchanged ==
    pc = "returned" =>
        \A k \in DOMAIN returned.rows :
            LET texts == SampleTexts(RowEntry(k))
                list == SourceToHub(returned.rows[k])
            IN \A p \in DOMAIN texts : list[p] = Loads(texts[p])

\* C4 (amended): the entry has the keys of the JSON object and the two keys
\* __metadata and __record_separator; every other key keeps the value of the
\* JSON object, __metadata holds the table names and record_type "missing" and
\* __record_separator holds true, whatever the object held under those names
C4_PassedThroughWithMetadata ==
    pc = "returned" =>
        \A k \in DOMAIN returned.rows :
            LET e == RowEntry(k)
                texts == SampleTexts(e)
                list == SourceToHub(returned.rows[k])
            IN \A p \in DOMAIN texts :
                  LET object == Loads(texts[p]).v
                      entry == list[p].v
                  IN /\ Keys(entry) = Keys(object) \cup AddedKeys
                     /\ \A key \in Keys(object) \ AddedKeys :
                           DictGet(entry, key) = DictGet(object, key)
                     /\ DictGet(entry, "__metadata") = ExpectedMetadata(table_configs[e.entry])
                     /\ DictGet(entry, "__record_separator") = Bool(TRUE)

\* a returned row whose source_to_hub list holds the entry of a missing row
C4_Witness ==
    /\ pc = "returned"
    /\ \E k \in DOMAIN returned.rows :
          /\ Len(SampleTexts(RowEntry(k))) >= 1
          /\ Keys(Loads(SampleTexts(RowEntry(k))[1]).v) = {"ID", "NAME"}
          /\ Keys(SourceToHub(returned.rows[k])[1].v) = {"ID", "NAME"} \cup AddedKeys

\* ---- the claims about extract_missing_records ----
IsNote(entry) == HasKey(entry.v, "NOTE")
IsError(entry) == HasKey(entry.v, "error")
OneErrorEntry(list) == Len(list) = 1 /\ IsError(list[1])
\* json.loads gives a dict for the text, or the text is handled in the loop
Usable(text) == text.k \in {"sqlnull", "malformed", "object"}
CountStatement == log[1].queries[1]
SampleStatement == log[1].queries[2]
\* the call submitted both statements and no exception was raised outside them
BothSubmitted ==
    /\ pc = "extracted"
    /\ table_configs[1].has_except
    /\ log[1].caught = "none"
SampleProcessed ==
    /\ SampleStatement.ok
    /\ \A p \in DOMAIN SampleStatement.res : Usable(SampleStatement.res[p])

\* the list is at most `limit` entries that are no NOTE, followed by one NOTE
\* entry exactly when total > limit
SampleThenNote(list, limit, total) ==
    LET n == Len(list)
        noted == n > 0 /\ IsNote(list[n])
        body == IF noted THEN SubSeq(list, 1, n - 1) ELSE list
    IN /\ Len(body) <= limit
       /\ \A i \in DOMAIN body : ~IsNote(body[i])
       /\ noted <=> total > limit

C5_AlwaysReturnsPair ==
    pc = "extracted" =>
        LET c == table_configs[1]
            e == log[1]
            count == ret[1]
            list == ret[2]
        IN /\ Len(ret) = 2
           /\ count \in Nat
           /\ DOMAIN list = 1..Len(list)
           /\ (e.caught = "none" /\ ~c.has_except) => (ret = <<0, <<>>>> /\ e.queries = <<>>)
           /\ (e.caught = "none" /\ c.has_except) =>
                 /\ Len(e.queries) = 2
                 /\ CountStatement.q = "count_except"
                 /\ SampleStatement.q = "sample"
                 /\ count = IF CountStatement.ok THEN CountExcept(db) ELSE 0
                 /\ ~SampleProcessed => OneErrorEntry(list)
           /\ e.caught # "none" => (count = 0 /\ OneErrorEntry(list))

\* the sample statement raised after the COUNT statement had counted a row
C5_Witness ==
    /\ BothSubmitted
    /\ CountStatement.ok
    /\ ~SampleStatement.ok
    /\ ret[1] >= 1
    /\ OneErrorEntry(ret[2])

====
